---- MODULE Spec2Model ----
(***************************************************************************)
(* State-machine model of blockchain.py: Transaction, Block and            *)
(* IndianBlockchain.                                                       *)
(*                                                                         *)
(* Python objects that the program shares by reference are kept in a heap: *)
(* `lists` holds every list object of transactions the program has         *)
(* allocated, and a block's `transactions` field and the chain's           *)
(* `pending_transactions` field are references (indices) into it.          *)
(*                                                                         *)
(* A SHA-256 digest is modelled by a record with two parts: `hex`, the     *)
(* leading HexLen characters of the hexdigest (digits over an alphabet of  *)
(* HexBase symbols, derived arithmetically from the hashed string), and    *)
(* `pre`, the hashed string itself, which stands for the remaining         *)
(* characters and makes two digests equal exactly when the hashed strings  *)
(* are equal (collision resistance).  The leading characters advance by   *)
(* one per nonce, so that mine_block terminates for every difficulty up to *)
(* HexLen.                                                                 *)
(*                                                                         *)
(* time.time() is read as a strictly increasing logical clock.             *)
(*                                                                         *)
(* `held_block`, `pc` and `raced` belong to the specifications that look   *)
(* inside a call: `held_block` is the Block object a caller holds (the     *)
(* local variable `block` of mine_pending_transactions, or a block on      *)
(* which Block's methods are called directly), `pc` the statement of       *)
(* mine_pending_transactions that the sealing caller has reached, and      *)
(* `raced` whether a second caller's add_transaction has run inside a      *)
(* seal.                                                                   *)
(***************************************************************************)
EXTENDS Integers, Sequences, FiniteSets, TLC

VARIABLES chain, difficulty, pending_transactions, lists, now, last, tampering,
          held_block, pc, raced

vars == <<chain, difficulty, pending_transactions, lists, now, last, tampering,
          held_block, pc, raced>>

(* ---------------------------- bounds ----------------------------------- *)
MaxChain == 3

MaxPending == 1

HexLen == 2

HexBase == 4

(* ---------------------------- inputs ----------------------------------- *)
Fin(v) == [fin |-> TRUE, v |-> v]

NaN == [fin |-> FALSE, v |-> 0]

PosInf == [fin |-> FALSE, v |-> 1]

NegInf == [fin |-> FALSE, v |-> -1]

IsFinite(a) == a.fin

Miners == {"M"}

TxInputs ==
    { <<"A", "B", Fin(100)>>, <<"B", "A", NaN>> }

Difficulties == 0..HexLen

MiningReward == Fin(10)

NetworkSender == "Network"

(* ---------------------------- helpers ---------------------------------- *)
Min(a, b) == IF a < b THEN a ELSE b

RECURSIVE Pow(_, _)
Pow(b, e) == IF e = 0 THEN 1 ELSE b * Pow(b, e - 1)

HexSpace == Pow(HexBase, HexLen)

\* time.time(): the wall clock is read as a strictly increasing value, so the
\* k-th reading of a run returns k (`now` is the latest reading)
time_time(latest) == latest + 1

NameCode(s) ==
    CASE s = "A" -> 1
      [] s = "B" -> 2
      [] s = "C" -> 3
      [] s = "M" -> 4
      [] s = "Network" -> 5
      [] OTHER -> 6

AmountCode(a) == IF a.fin THEN (IF a.v < 0 THEN 1 - a.v ELSE a.v) ELSE 7 + a.v

(* ---------------------------- Transaction ------------------------------ *)
Transaction(sender, recipient, amount, t) ==
    [sender |-> sender, recipient |-> recipient, amount |-> amount, timestamp |-> t]

to_dict(tx) ==
    [sender |-> tx.sender, recipient |-> tx.recipient,
     amount |-> tx.amount, timestamp |-> tx.timestamp]

(* ---------------------------- hashing ---------------------------------- *)
\* json.dumps(..., sort_keys=True) of a transaction dict: the values in key
\* order amount, recipient, sender, timestamp
json_dumps_tx(d) == <<d.amount, d.recipient, d.sender, d.timestamp>>

\* json.dumps(block_content, sort_keys=True): the values in key order
\* index, nonce, previous_hash, timestamp, transactions
json_dumps(c) ==
    <<c.index, c.nonce, c.previous_hash, c.timestamp,
      [k \in 1..Len(c.transactions) |-> json_dumps_tx(c.transactions[k])]>>

HexValue(hex) ==
    LET RECURSIVE Val(_, _)
        Val(k, acc) == IF k > Len(hex) THEN acc ELSE Val(k + 1, acc * HexBase + hex[k])
    IN Val(1, 0)

TxMix(s) == AmountCode(s[1]) + 2 * NameCode(s[2]) + 3 * NameCode(s[3]) + 5 * s[4]

RECURSIVE TxsMix(_, _, _)
TxsMix(txs, k, acc) ==
    IF k > Len(txs) THEN acc
    ELSE TxsMix(txs, k + 1, (acc * 7 + TxMix(txs[k]) + 1) % HexSpace)

\* the numeric value of the leading characters of the digest of string s
Mix(s) ==
    (3 * s[1] + s[2] + 5 * HexValue(s[3].hex) + 7 * s[4] + 11 * TxsMix(s[5], 1, 0) + 5)
        % HexSpace

Digits(v) == [k \in 1..HexLen |-> (v \div Pow(HexBase, HexLen - k)) % HexBase]

\* hashlib.sha256(s.encode()).hexdigest()
sha256_hexdigest(s) == [hex |-> Digits(Mix(s)), pre |-> s]

\* "0" * 64
ZeroHash == [hex |-> [k \in 1..HexLen |-> 0], pre |-> <<>>]

\* h[:d] for d >= 0, and "0" * d
Prefix(h, d) == SubSeq(h.hex, 1, Min(d, HexLen))

Zeros(d) == [k \in 1..d |-> 0]

(* ---------------------------- Block ------------------------------------ *)
calculate_hash(b, heap) ==
    LET block_content ==
            [index |-> b.index,
             timestamp |-> b.timestamp,
             transactions |->
                 [k \in 1..Len(heap[b.transactions]) |-> to_dict(heap[b.transactions][k])],
             previous_hash |-> b.previous_hash,
             nonce |-> b.nonce]
    IN sha256_hexdigest(json_dumps(block_content))

\* Block.__init__: transactions is a reference to a list in the heap
Block(index, transactions, previous_hash, t, heap) ==
    LET b0 == [index |-> index, timestamp |-> t, transactions |-> transactions,
               previous_hash |-> previous_hash, nonce |-> 0, hash |-> ZeroHash]
    IN [b0 EXCEPT !.hash = calculate_hash(b0, heap)]

\* mine_block with the hash taken before the nonce is advanced
RECURSIVE mine_block_stale(_, _, _)
mine_block_stale(b, heap, d) ==
    IF Prefix(b.hash, d) # Zeros(d)
    THEN LET h == calculate_hash(b, heap)
         IN mine_block_stale([b EXCEPT !.nonce = @ + 1, !.hash = h], heap, d)
    ELSE b

\* mine_block comparing one character too few
RECURSIVE mine_block_short(_, _, _)
mine_block_short(b, heap, d) ==
    IF d > 0 /\ Prefix(b.hash, d - 1) # Zeros(d - 1)
    THEN LET b1 == [b EXCEPT !.nonce = @ + 1]
         IN mine_block_short([b1 EXCEPT !.hash = calculate_hash(b1, heap)], heap, d)
    ELSE b

\* mine_block whose loop body runs before the first test
RECURSIVE mine_block_always(_, _, _)
mine_block_always(b, heap, d) ==
    LET b1 == [b EXCEPT !.nonce = @ + 1]
        b2 == [b1 EXCEPT !.hash = calculate_hash(b1, heap)]
    IN IF Prefix(b2.hash, d) # Zeros(d)
       THEN mine_block_always(b2, heap, d)
       ELSE b2

\* mine_block testing the recomputed hash in place of the stored one
RECURSIVE mine_block_rehash(_, _, _)
mine_block_rehash(b, heap, d) ==
    IF Prefix(calculate_hash(b, heap), d) # Zeros(d)
    THEN mine_block_rehash([b EXCEPT !.nonce = @ + 1], heap, d)
    ELSE [b EXCEPT !.hash = calculate_hash(b, heap)]

RECURSIVE mine_block(_, _, _)
mine_block(b, heap, d) ==
    IF Prefix(b.hash, d) # Zeros(d)
    THEN LET b1 == [b EXCEPT !.nonce = @ + 1]
         IN mine_block([b1 EXCEPT !.hash = calculate_hash(b1, heap)], heap, d)
    ELSE b

(* ---------------------------- IndianBlockchain ------------------------- *)
\* create_genesis_block without the mine_block call
create_genesis_block_unmined(heap, ref, t, d) == Block(0, ref, ZeroHash, t, heap)

\* create_genesis_block: the block appended by the constructor; ref is the
\* fresh empty list passed as its transactions
create_genesis_block(heap, ref, t, d) ==
    mine_block(Block(0, ref, ZeroHash, t, heap), heap, d)

\* get_latest_block reading chain[0] instead of chain[-1]
get_latest_block_first(c) == c[1]

get_latest_block(c) == c[Len(c)]

\* add_transaction inserting at the front of the pool
add_transaction_prepend(heap, pending, sender, recipient, amount, t) ==
    LET transaction == Transaction(sender, recipient, amount, t)
    IN [heap EXCEPT ![pending] = <<transaction>> \o @]

\* add_transaction binding the pool's content to the new transaction alone
add_transaction_replace(heap, pending, sender, recipient, amount, t) ==
    LET transaction == Transaction(sender, recipient, amount, t)
    IN [heap EXCEPT ![pending] = <<transaction>>]

\* add_transaction, lines 80-81: the heap after the new Transaction has been
\* appended to the list that `pending` refers to
add_transaction(heap, pending, sender, recipient, amount, t) ==
    LET transaction == Transaction(sender, recipient, amount, t)
    IN [heap EXCEPT ![pending] = Append(@, transaction)]

\* the outcome of an is_chain_valid() call: the returned value and, when it is
\* False, the block index and category of the printed finding
Finding(ret, index, category) == [ret |-> ret, index |-> index, category |-> category]

\* is_chain_valid without the recomputed-hash check
RECURSIVE is_chain_valid_from_nohash(_, _, _, _)
is_chain_valid_from_nohash(i, c, heap, d) ==
    IF i >= Len(c) THEN Finding(TRUE, -1, "valid")
    ELSE LET current_block == c[i + 1]
             previous_block == c[i]
         IN IF current_block.previous_hash # previous_block.hash
            THEN Finding(FALSE, i, "linkage")
            ELSE IF Prefix(current_block.hash, d) # Zeros(d)
            THEN Finding(FALSE, i, "proof_of_work")
            ELSE is_chain_valid_from_nohash(i + 1, c, heap, d)

\* is_chain_valid with the linkage check ahead of the hash check
RECURSIVE is_chain_valid_from_linkfirst(_, _, _, _)
is_chain_valid_from_linkfirst(i, c, heap, d) ==
    IF i >= Len(c) THEN Finding(TRUE, -1, "valid")
    ELSE LET current_block == c[i + 1]
             previous_block == c[i]
         IN IF current_block.previous_hash # previous_block.hash
            THEN Finding(FALSE, i, "linkage")
            ELSE IF current_block.hash # calculate_hash(current_block, heap)
            THEN Finding(FALSE, i, "hash")
            ELSE IF Prefix(current_block.hash, d) # Zeros(d)
            THEN Finding(FALSE, i, "proof_of_work")
            ELSE is_chain_valid_from_linkfirst(i + 1, c, heap, d)

RECURSIVE is_chain_valid_from(_, _, _, _)
is_chain_valid_from(i, c, heap, d) ==
    IF i >= Len(c) THEN Finding(TRUE, -1, "valid")
    ELSE LET current_block == c[i + 1]
             previous_block == c[i]
         IN IF current_block.hash # calculate_hash(current_block, heap)
            THEN Finding(FALSE, i, "hash")
            ELSE IF current_block.previous_hash # previous_block.hash
            THEN Finding(FALSE, i, "linkage")
            ELSE IF Prefix(current_block.hash, d) # Zeros(d)
            THEN Finding(FALSE, i, "proof_of_work")
            ELSE is_chain_valid_from(i + 1, c, heap, d)

\* is_chain_valid that also recomputes the hash of the genesis block
is_chain_valid_genesis(c, heap, d) ==
    IF c[1].hash # calculate_hash(c[1], heap)
    THEN Finding(FALSE, 0, "hash")
    ELSE is_chain_valid_from(1, c, heap, d)

is_chain_valid(c, heap, d) == is_chain_valid_from(1, c, heap, d)

\* the record of the last call made on the chain object
Call(op, arg, raised, result) == [op |-> op, arg |-> arg, raised |-> raised, result |-> result]

NoArg == <<>>

NoResult == Finding(TRUE, -1, "none")

NoTampering == [index |-> -2, field |-> "none", tx |-> -1, length |-> 0]

\* no Block object is held outside the chain
NoBlock == [index |-> -1, timestamp |-> 0, transactions |-> 0,
            previous_hash |-> ZeroHash, nonce |-> 0, hash |-> ZeroHash]

\* IndianBlockchain.__init__: list 1 is pending_transactions, list 2 the
\* genesis block's transactions
Init ==
    \E d \in Difficulties :
        LET heap == << <<>>, <<>> >>
            t == time_time(0)
        IN /\ chain = <<create_genesis_block(heap, 2, t, d)>>
           /\ difficulty = d
           /\ pending_transactions = 1
           /\ lists = heap
           /\ now = t
           /\ last = Call("init", NoArg, "none", NoResult)
           /\ tampering = NoTampering
           /\ held_block = NoBlock
           /\ pc = "idle"
           /\ raced = FALSE

AddTransaction(sender, recipient, amount) ==
    /\ Len(lists[pending_transactions]) < MaxPending
    /\ LET t == time_time(now)
       IN /\ lists' = add_transaction(lists, pending_transactions,
                                      sender, recipient, amount, t)
          /\ now' = t
    /\ last' = Call("add_transaction", <<sender, recipient, amount>>, "none", NoResult)
    /\ UNCHANGED <<chain, difficulty, pending_transactions, tampering, held_block, pc, raced>>

\* mine_pending_transactions emptying the pool with list.clear() instead of
\* binding a new list
mine_pending_transactions_clear(miner_address) ==
    /\ Len(chain) < MaxChain
    /\ LET t1 == time_time(now)
           t2 == time_time(t1)
           heap1 == add_transaction(lists, pending_transactions,
                                    NetworkSender, miner_address, MiningReward, t1)
           block == Block(Len(chain), pending_transactions,
                          get_latest_block(chain).hash, t2, heap1)
           mined == mine_block(block, heap1, difficulty)
       IN  /\ chain' = Append(chain, mined)
           /\ lists' = [heap1 EXCEPT ![pending_transactions] = <<>>]
           /\ pending_transactions' = pending_transactions
           /\ now' = t2
    /\ last' = Call("mine_pending_transactions", <<miner_address>>, "none", NoResult)
    /\ UNCHANGED <<difficulty, tampering, held_block, pc, raced>>

\* mine_pending_transactions binding the pool to a copy of the sealed list
mine_pending_transactions_requeue(miner_address) ==
    /\ Len(chain) < MaxChain
    /\ LET t1 == time_time(now)
           t2 == time_time(t1)
           heap1 == add_transaction(lists, pending_transactions,
                                    NetworkSender, miner_address, MiningReward, t1)
           block == Block(Len(chain), pending_transactions,
                          get_latest_block(chain).hash, t2, heap1)
           mined == mine_block(block, heap1, difficulty)
       IN  /\ chain' = Append(chain, mined)
           /\ lists' = Append(heap1, heap1[pending_transactions])
           /\ pending_transactions' = Len(heap1) + 1
           /\ now' = t2
    /\ last' = Call("mine_pending_transactions", <<miner_address>>, "none", NoResult)
    /\ UNCHANGED <<difficulty, tampering, held_block, pc, raced>>

\* mine_pending_transactions numbering the block by the tip's index
mine_pending_transactions_tipindex(miner_address) ==
    /\ Len(chain) < MaxChain
    /\ LET t1 == time_time(now)
           t2 == time_time(t1)
           heap1 == add_transaction(lists, pending_transactions,
                                    NetworkSender, miner_address, MiningReward, t1)
           block == Block(get_latest_block(chain).index, pending_transactions,
                          get_latest_block(chain).hash, t2, heap1)
           mined == mine_block(block, heap1, difficulty)
       IN  /\ chain' = Append(chain, mined)
           /\ lists' = Append(heap1, <<>>)
           /\ pending_transactions' = Len(heap1) + 1
           /\ now' = t2
    /\ last' = Call("mine_pending_transactions", <<miner_address>>, "none", NoResult)
    /\ UNCHANGED <<difficulty, tampering, held_block, pc, raced>>

\* mine_pending_transactions without the final pool reset
mine_pending_transactions_keep(miner_address) ==
    /\ Len(chain) < MaxChain
    /\ LET t1 == time_time(now)
           t2 == time_time(t1)
           heap1 == add_transaction(lists, pending_transactions,
                                    NetworkSender, miner_address, MiningReward, t1)
           block == Block(Len(chain), pending_transactions,
                          get_latest_block(chain).hash, t2, heap1)
           mined == mine_block(block, heap1, difficulty)
       IN  /\ chain' = Append(chain, mined)
           /\ lists' = heap1
           /\ pending_transactions' = pending_transactions
           /\ now' = t2
    /\ last' = Call("mine_pending_transactions", <<miner_address>>, "none", NoResult)
    /\ UNCHANGED <<difficulty, tampering, held_block, pc, raced>>

mine_pending_transactions(miner_address) ==
    /\ Len(chain) < MaxChain
    /\ LET t1 == time_time(now)
           t2 == time_time(t1)
           heap1 == add_transaction(lists, pending_transactions,
                                    NetworkSender, miner_address, MiningReward, t1)
           block == Block(Len(chain), pending_transactions,
                          get_latest_block(chain).hash, t2, heap1)
           mined == mine_block(block, heap1, difficulty)
       IN  /\ chain' = Append(chain, mined)
           /\ lists' = Append(heap1, <<>>)
           /\ pending_transactions' = Len(heap1) + 1
           /\ now' = t2
    /\ last' = Call("mine_pending_transactions", <<miner_address>>, "none", NoResult)
    /\ UNCHANGED <<difficulty, tampering, held_block, pc, raced>>

\* is_chain_valid storing each recomputed hash in its block
IsChainValid_repair ==
    /\ last' = Call("is_chain_valid", NoArg, "none", is_chain_valid(chain, lists, difficulty))
    /\ chain' = [k \in 1..Len(chain) |->
                    [chain[k] EXCEPT !.hash = calculate_hash(chain[k], lists)]]
    /\ UNCHANGED <<difficulty, pending_transactions, lists, now, tampering,
                   held_block, pc, raced>>

IsChainValid ==
    /\ last' = Call("is_chain_valid", NoArg, "none", is_chain_valid(chain, lists, difficulty))
    /\ UNCHANGED <<chain, difficulty, pending_transactions, lists, now, tampering,
                   held_block, pc, raced>>

AddTransactionCall == \E inp \in TxInputs : AddTransaction(inp[1], inp[2], inp[3])

MinePendingTransactionsCall == \E m \in Miners : mine_pending_transactions(m)

Next == AddTransactionCall \/ MinePendingTransactionsCall \/ IsChainValid

Spec == Init /\ [][Next]_vars

(* ---------------------------- tampering -------------------------------- *)
\* a single direct write to one attribute of a stored block, of one of its
\* transactions, or of the chain object, as in
\* blockchain.chain[1].transactions[0].amount = 2000.0
BlockFields == {"index", "timestamp", "previous_hash", "nonce", "hash"}

TxFields == {"sender", "recipient", "amount", "timestamp"}

TamperedAmount == Fin(2000)

BlockFieldValues(b, f) ==
    CASE f = "index" -> {b.index + 1}
      [] f = "timestamp" -> {b.timestamp + 1}
      [] f = "nonce" -> {b.nonce + 1}
      [] f = "previous_hash" -> {ZeroHash, b.hash} \ {b.previous_hash}
      [] f = "hash" -> {ZeroHash, b.previous_hash} \ {b.hash}

TxFieldValues(tx, f) ==
    CASE f = "sender" -> {"C"} \ {tx.sender}
      [] f = "recipient" -> {"C"} \ {tx.recipient}
      [] f = "amount" -> {TamperedAmount} \ {tx.amount}
      [] f = "timestamp" -> {tx.timestamp + 1}

Tampering(index, field, tx) ==
    [index |-> index, field |-> field, tx |-> tx, length |-> Len(chain)]

TamperBlock ==
    /\ tampering = NoTampering
    /\ \E i \in 1..Len(chain), f \in BlockFields :
        \E v \in BlockFieldValues(chain[i], f) :
            /\ chain' = [chain EXCEPT ![i][f] = v]
            /\ tampering' = Tampering(i - 1, f, -1)
    /\ last' = Call("tamper", NoArg, "none", NoResult)
    /\ UNCHANGED <<difficulty, pending_transactions, lists, now, held_block, pc, raced>>

TamperTransaction ==
    /\ tampering = NoTampering
    /\ \E i \in 1..Len(chain), f \in TxFields :
        \E k \in 1..Len(lists[chain[i].transactions]) :
            \E v \in TxFieldValues(lists[chain[i].transactions][k], f) :
                /\ lists' = [lists EXCEPT ![chain[i].transactions][k][f] = v]
                /\ tampering' = Tampering(i - 1, f, k - 1)
    /\ last' = Call("tamper", NoArg, "none", NoResult)
    /\ UNCHANGED <<chain, difficulty, pending_transactions, now, held_block, pc, raced>>

TamperDifficulty ==
    /\ tampering = NoTampering
    /\ \E d \in Difficulties \ {difficulty} :
        /\ difficulty' = d
        /\ tampering' = Tampering(-1, "difficulty", -1)
    /\ last' = Call("tamper", NoArg, "none", NoResult)
    /\ UNCHANGED <<chain, pending_transactions, lists, now, held_block, pc, raced>>

\* the scenario of demonstrate_blockchain, lines 134-165: the chain is built,
\* one attribute is overwritten after a seal (the pool is empty), and the
\* chain is validated
TamperNext ==
    \/ tampering = NoTampering /\ (AddTransactionCall \/ MinePendingTransactionsCall)
    \/ IsChainValid
    \/ lists[pending_transactions] = <<>> /\ TamperBlock
    \/ lists[pending_transactions] = <<>> /\ TamperTransaction
    \/ lists[pending_transactions] = <<>> /\ TamperDifficulty

TamperSpec == Init /\ [][TamperNext]_vars

(* ---------------------------- Block on its own ------------------------- *)
\* the arguments a Block is constructed from
BlockIndexes == {0, 1}

BlockTransactionLists == { <<>>, <<Transaction("A", "B", Fin(100), 1)>> }

\* Block(index, transactions, previous_hash): a caller constructs a block and
\* holds it; list 2 of the heap is its transactions
BlockInit ==
    \E index \in BlockIndexes, txs \in BlockTransactionLists :
        LET heap == << <<>>, txs >>
            t == time_time(Len(txs))
        IN /\ held_block = Block(index, 2, ZeroHash, t, heap)
           /\ lists = heap
           /\ now = t
           /\ chain = <<>>
           /\ difficulty = 0
           /\ pending_transactions = 1
           /\ last = Call("Block", <<index>>, "none", NoResult)
           /\ tampering = NoTampering
           /\ pc = "idle"
           /\ raced = FALSE

\* held_block.mine_block(d)
MineBlockCall(d) ==
    /\ held_block' = mine_block(held_block, lists, d)
    /\ last' = Call("mine_block", <<d>>, "none", NoResult)
    /\ UNCHANGED <<chain, difficulty, pending_transactions, lists, now, tampering, pc, raced>>

\* calculate_hash that also stores the digest in the block
CalculateHashCall_store ==
    /\ last' = Call("calculate_hash", NoArg, "none", calculate_hash(held_block, lists))
    /\ held_block' = [held_block EXCEPT !.hash = calculate_hash(held_block, lists)]
    /\ UNCHANGED <<chain, difficulty, pending_transactions, lists, now, tampering, pc, raced>>

\* held_block.calculate_hash(): the digest is returned to the caller
CalculateHashCall ==
    /\ last' = Call("calculate_hash", NoArg, "none", calculate_hash(held_block, lists))
    /\ UNCHANGED <<chain, difficulty, pending_transactions, lists, now, tampering,
                   held_block, pc, raced>>

\* one direct write to an attribute of the held block
WriteBlockField ==
    /\ tampering = NoTampering
    /\ \E f \in BlockFields :
        \E v \in BlockFieldValues(held_block, f) :
            /\ held_block' = [held_block EXCEPT ![f] = v]
            /\ tampering' = Tampering(held_block.index, f, -1)
    /\ last' = Call("tamper", NoArg, "none", NoResult)
    /\ UNCHANGED <<chain, difficulty, pending_transactions, lists, now, pc, raced>>

\* one direct write to an attribute of a transaction of the held block
WriteTransactionField ==
    /\ tampering = NoTampering
    /\ \E f \in TxFields :
        \E k \in 1..Len(lists[held_block.transactions]) :
            \E v \in TxFieldValues(lists[held_block.transactions][k], f) :
                /\ lists' = [lists EXCEPT ![held_block.transactions][k][f] = v]
                /\ tampering' = Tampering(held_block.index, f, k - 1)
    /\ last' = Call("tamper", NoArg, "none", NoResult)
    /\ UNCHANGED <<chain, difficulty, pending_transactions, now, held_block, pc, raced>>

BlockNext ==
    \/ \E d \in Difficulties : MineBlockCall(d)
    \/ CalculateHashCall
    \/ WriteBlockField
    \/ WriteTransactionField

BlockSpec == BlockInit /\ [][BlockNext]_vars

(* ------------------- two callers, statement granularity ---------------- *)
\* One caller makes calls one at a time; a second caller makes one call of
\* add_transaction while a call of mine_pending_transactions is in progress.
\* The statements of mine_pending_transactions are the steps; after the
\* second caller's call the call in progress runs to its end and the chain
\* is validated.
\* mine_pending_transactions, first statement: the reward is added to the pool
MineReward(miner_address) ==
    /\ pc = "idle"
    /\ ~raced
    /\ Len(chain) < MaxChain
    /\ LET t == time_time(now)
       IN /\ lists' = add_transaction(lists, pending_transactions,
                                      NetworkSender, miner_address, MiningReward, t)
          /\ now' = t
    /\ pc' = "construct"
    /\ last' = Call("mine_pending_transactions", <<miner_address>>, "none", NoResult)
    /\ UNCHANGED <<chain, difficulty, pending_transactions, tampering, held_block, raced>>

\* block construction from a copy of the pool list
MineConstruct_copy ==
    /\ pc = "construct"
    /\ LET t == time_time(now)
           heap1 == Append(lists, lists[pending_transactions])
       IN /\ held_block' = Block(Len(chain), Len(heap1), get_latest_block(chain).hash, t, heap1)
          /\ lists' = heap1
          /\ now' = t
    /\ pc' = "mine"
    /\ UNCHANGED <<chain, difficulty, pending_transactions, last, tampering, raced>>

\* block = Block(len(self.chain), self.pending_transactions, latest hash)
MineConstruct ==
    /\ pc = "construct"
    /\ LET t == time_time(now)
       IN /\ held_block' = Block(Len(chain), pending_transactions,
                                 get_latest_block(chain).hash, t, lists)
          /\ now' = t
    /\ pc' = "mine"
    /\ UNCHANGED <<chain, difficulty, pending_transactions, lists, last, tampering, raced>>

\* block.mine_block(self.difficulty)
MineBlock ==
    /\ pc = "mine"
    /\ held_block' = mine_block(held_block, lists, difficulty)
    /\ pc' = "append"
    /\ UNCHANGED <<chain, difficulty, pending_transactions, lists, now, last, tampering, raced>>

\* self.chain.append(block)
MineAppend ==
    /\ pc = "append"
    /\ chain' = Append(chain, held_block)
    /\ pc' = "reset"
    /\ UNCHANGED <<difficulty, pending_transactions, lists, now, last, tampering,
                   held_block, raced>>

\* self.pending_transactions = [], and the call returns
MineReset ==
    /\ pc = "reset"
    /\ lists' = Append(lists, <<>>)
    /\ pending_transactions' = Len(lists) + 1
    /\ held_block' = NoBlock
    /\ pc' = "idle"
    /\ UNCHANGED <<chain, difficulty, now, last, tampering, raced>>

\* the one add_transaction of a second caller, made while a call of
\* mine_pending_transactions is in progress
RacingAddTransaction(sender, recipient, amount) ==
    /\ pc # "idle"
    /\ ~raced
    /\ LET t == time_time(now)
       IN /\ lists' = add_transaction(lists, pending_transactions,
                                      sender, recipient, amount, t)
          /\ now' = t
    /\ raced' = TRUE
    /\ last' = Call("add_transaction", <<sender, recipient, amount>>, "none", NoResult)
    /\ UNCHANGED <<chain, difficulty, pending_transactions, tampering, held_block, pc>>

ConcNext ==
    \/ pc = "idle" /\ ~raced /\ AddTransactionCall
    \/ pc = "idle" /\ IsChainValid
    \/ \E m \in Miners : MineReward(m)
    \/ MineConstruct
    \/ MineBlock
    \/ MineAppend
    \/ MineReset
    \/ \E inp \in TxInputs : RacingAddTransaction(inp[1], inp[2], inp[3])

ConcSpec == Init /\ [][ConcNext]_vars

(* ---------------------------- properties ------------------------------- *)
Pool == lists[pending_transactions]

TxsOf(b) == lists[b.transactions]

Validity == is_chain_valid(chain, lists, difficulty)

\* C1: without tampering, the genesis block's previous_hash is the all-zero
\* sentinel of digest width and every later block's previous_hash is the stored
\* hash of the block before it.
C1_Linkage ==
    /\ chain[1].previous_hash = ZeroHash
    /\ Len(ZeroHash.hex) = HexLen
    /\ \A k \in 1..HexLen : ZeroHash.hex[k] = 0
    /\ \A i \in 2..Len(chain) : chain[i].previous_hash = chain[i - 1].hash

C1_Witness ==
    /\ Len(chain) >= 3
    /\ chain[3].previous_hash = chain[2].hash
    /\ chain[2].hash # chain[1].hash

\* C2: on a chain built only by the constructor, add_transaction and
\* mine_pending_transactions, is_chain_valid() returns True wherever it is
\* called.
C2_AlwaysValid ==
    /\ Validity.ret = TRUE
    /\ last.op = "is_chain_valid" => last.result.ret = TRUE

C2_Witness ==
    /\ last.op = "is_chain_valid"
    /\ last.result.ret = TRUE
    /\ Len(chain) >= 3
    /\ Len(TxsOf(chain[2])) >= 2

\* the finding C3 requires of a validation that follows a mutation
Detected(r) ==
    /\ r.ret = FALSE
    /\ r.index >= tampering.index
    /\ r.category \in {"hash", "linkage"}

\* C3 as stated: after one field of any stored block (genesis included) is
\* mutated, the next is_chain_valid() returns False at or after that block
\* with a hash or linkage finding.
C3_Original ==
    (last.op = "tamper" /\ tampering.field \in BlockFields \cup TxFields)
        => Detected(Validity)

\* the mutations C3 holds for: any field of a non-genesis block, or the stored
\* hash of the genesis block when a second block already exists
DetectableTampering ==
    /\ tampering.field \in BlockFields \cup TxFields
    /\ \/ tampering.index >= 1
       \/ tampering.index = 0 /\ tampering.field = "hash" /\ tampering.length >= 2

\* C3 amended: after one field of a non-genesis block, or the genesis hash of
\* a chain of at least two blocks, is mutated, is_chain_valid() returns False
\* at or after the mutated block with a hash or linkage finding.
C3_TamperDetected ==
    DetectableTampering =>
        /\ Detected(Validity)
        /\ last.op = "is_chain_valid" => Detected(last.result)

C3_Witness ==
    /\ tampering.index = 1
    /\ tampering.field = "amount"
    /\ Len(chain) >= 3
    /\ last.op = "is_chain_valid"
    /\ last.result = Finding(FALSE, 1, "hash")

\* a step that appends a block
MineStep == Len(chain') = Len(chain) + 1

C5_ProofOfWork ==
    \A i \in 1..Len(chain) :
        /\ difficulty <= Len(chain[i].hash.hex)
        /\ \A k \in 1..difficulty : chain[i].hash.hex[k] = 0

C5_Witness ==
    /\ difficulty = 2
    /\ Len(chain) >= 3
    /\ \E i \in 1..Len(chain) : chain[i].nonce > 0

\* C6: the chain never shrinks; mine_pending_transactions grows it by one,
\* add_transaction and is_chain_valid leave its length alone, and every block
\* already stored keeps its position and all its fields, the content of its
\* transaction list included.
C6_AppendOnly ==
    [][/\ Len(chain') >= Len(chain)
       /\ last'.op = "mine_pending_transactions" => Len(chain') = Len(chain) + 1
       /\ last'.op \in {"add_transaction", "is_chain_valid"} => Len(chain') = Len(chain)
       /\ \A i \in 1..Len(chain) :
            /\ chain'[i] = chain[i]
            /\ lists'[chain'[i].transactions] = lists[chain[i].transactions]]_vars

C6_Witness ==
    /\ Len(chain) >= 3
    /\ last.op = "add_transaction"
    /\ Len(Pool) >= 1
    /\ Len(TxsOf(chain[2])) = 1

\* C7: after the constructor the chain is a single block with index 0, no
\* transactions, the all-zero previous_hash and a hash meeting the difficulty,
\* and the pool is empty; the genesis values stay so under later calls.
C7_Genesis ==
    /\ chain[1].index = 0
    /\ TxsOf(chain[1]) = <<>>
    /\ chain[1].previous_hash = ZeroHash
    /\ Prefix(chain[1].hash, difficulty) = Zeros(difficulty)
    /\ last.op = "init" => (Len(chain) = 1 /\ Pool = <<>>)

C7_Witness ==
    /\ Len(chain) >= 3
    /\ difficulty >= 1
    /\ chain[1].nonce > 0
    /\ Len(Pool) >= 1

\* C8: add_transaction with a non-finite amount fails with InvalidAmount and
\* leaves the pool alone (the amount is not in the pool); with a finite
\* amount it succeeds.
C8_InvalidAmount ==
    last.op = "add_transaction" =>
        IF IsFinite(last.arg[3])
        THEN last.raised = "none"
        ELSE /\ last.raised = "InvalidAmount"
             /\ \A k \in 1..Len(Pool) : IsFinite(Pool[k].amount)

\* C9: every block in the chain stores the hash of its current content, also
\* after transactions have been added to the pool following a seal.
C9_StoredHash ==
    \A i \in 1..Len(chain) : chain[i].hash = calculate_hash(chain[i], lists)

C9_Witness ==
    /\ Len(chain) >= 2
    /\ last.op = "add_transaction"
    /\ Len(Pool) >= 1
    /\ chain[Len(chain)].nonce > 0
    /\ chain[Len(chain)].hash = calculate_hash(chain[Len(chain)], lists)

\* the three checks of is_chain_valid on block index i, stated on the state
HashBad(i) == chain[i + 1].hash # calculate_hash(chain[i + 1], lists)

LinkBad(i) == chain[i + 1].previous_hash # chain[i].hash

PowBad(i) ==
    \E k \in 1..difficulty : k > Len(chain[i + 1].hash.hex) \/ chain[i + 1].hash.hex[k] # 0

\* the finding the three checks call for: none when no block fails, else the
\* lowest failing index with the first failing check in the order hash,
\* linkage, proof of work
ExpectedFinding ==
    LET failing == { i \in 1..(Len(chain) - 1) : HashBad(i) \/ LinkBad(i) \/ PowBad(i) }
    IN IF failing = {}
       THEN Finding(TRUE, -1, "valid")
       ELSE LET i == CHOOSE j \in failing : \A k \in failing : j <= k
            IN Finding(FALSE, i, IF HashBad(i) THEN "hash"
                                 ELSE IF LinkBad(i) THEN "linkage"
                                 ELSE "proof_of_work")

Consistent(b, heap) == b.hash = calculate_hash(b, heap)

\* C11: calculate_hash changes no field of the block (stored hash and nonce
\* included) nor its transactions, and for unchanged fields it returns the
\* digest that the constructor or mine_block computed from them.
C11_CalculateHashPure ==
    [][last'.op = "calculate_hash" =>
        /\ held_block' = held_block
        /\ lists' = lists
        /\ tampering = NoTampering => last'.result = held_block.hash]_vars

C11_Witness ==
    /\ last.op = "calculate_hash"
    /\ tampering.field = "nonce"
    /\ held_block.nonce > 1
    /\ last.result # held_block.hash
    /\ last.result = calculate_hash(held_block, lists)

\* the places a transaction is in: position k of the pool (place 0) or
\* position k of the transaction list of the block at index i - 1 (place i)
Places(c, heap, pending, tx) ==
    {<<0, k>> : k \in {j \in 1..Len(heap[pending]) : heap[pending][j] = tx}}
        \cup UNION { {<<i, k>> : k \in {j \in 1..Len(heap[c[i].transactions]) :
                                            heap[c[i].transactions][j] = tx}}
                     : i \in 1..Len(c) }

\* the transactions the blockchain holds
Held(c, heap, pending) ==
    {heap[pending][k] : k \in 1..Len(heap[pending])}
        \cup UNION { {heap[c[i].transactions][k] : k \in 1..Len(heap[c[i].transactions])}
                     : i \in 1..Len(c) }

\* C12: under single-caller use a call of add_transaction puts its transaction
\* in the pool; every transaction held is, after every later call, in exactly
\* one place, the pool or one block; a transaction of a block stays in that
\* block and is never in the pool or in a second block.
C12_Conservation ==
    [][/\ last'.op = "add_transaction" =>
            /\ Pool'[Len(Pool')] \notin Held(chain, lists, pending_transactions)
            /\ Places(chain', lists', pending_transactions', Pool'[Len(Pool')])
                    = {<<0, Len(Pool')>>}
       /\ \A tx \in Held(chain, lists, pending_transactions)
                        \cup Held(chain', lists', pending_transactions') :
            Cardinality(Places(chain', lists', pending_transactions', tx)) = 1
       /\ \A tx \in Held(chain, lists, pending_transactions) :
            \A p \in Places(chain, lists, pending_transactions, tx) :
                p[1] > 0 => Places(chain', lists', pending_transactions', tx) = {p}]_vars

C12_Witness ==
    /\ Len(chain) = 3
    /\ Len(TxsOf(chain[2])) = 2
    /\ Len(TxsOf(chain[3])) = 2
    /\ Len(Pool) = 1
    /\ Cardinality(Held(chain, lists, pending_transactions)) = 5
    /\ \A tx \in Held(chain, lists, pending_transactions) :
            Cardinality(Places(chain, lists, pending_transactions, tx)) = 1

\* the block holds a transaction after a reward transaction
TxAfterReward(b, heap) ==
    \E k \in 1..(Len(heap[b.transactions]) - 1) :
        heap[b.transactions][k].sender = NetworkSender

\* the second caller's add_transaction happens in this step
RaceStep == raced' /\ ~raced

\* C13: with no lock, an add_transaction of a second caller that runs after
\* mine_block has finished and before the pool is reset puts its transaction
\* after the reward in the list the new block shares with the pool, and the
\* block's stored hash then differs from the hash of its fields; once that
\* block is in the chain is_chain_valid() is False though no field was ever
\* written from outside. A chain that fails validation in this setting holds
\* such a block.
C13_RaceBreaksChain ==
    [][/\ tampering' = NoTampering
       /\ RaceStep /\ pc \in {"mine", "append"} =>
            /\ TxAfterReward(held_block', lists')
            /\ ~Consistent(held_block', lists')
       /\ RaceStep /\ pc = "reset" =>
            /\ TxAfterReward(chain'[Len(chain')], lists')
            /\ ~Consistent(chain'[Len(chain')], lists')
            /\ ~is_chain_valid(chain', lists', difficulty').ret
       /\ pc = "append" /\ pc' = "reset" /\ ~Consistent(held_block, lists) =>
            /\ chain'[Len(chain')] = held_block
            /\ ~is_chain_valid(chain', lists', difficulty').ret
       /\ pc' = "idle" /\ ~is_chain_valid(chain', lists', difficulty').ret =>
            \E i \in 2..Len(chain') :
                /\ TxAfterReward(chain'[i], lists')
                /\ ~Consistent(chain'[i], lists')]_vars

C13_Witness ==
    /\ pc = "idle"
    /\ raced
    /\ tampering = NoTampering
    /\ Len(chain) >= 2
    /\ TxAfterReward(chain[Len(chain)], lists)
    /\ chain[Len(chain)].hash # calculate_hash(chain[Len(chain)], lists)
    /\ last.op = "is_chain_valid"
    /\ last.result.ret = FALSE
    /\ Pool = <<>>

\* the hash of block b with nonce n has d leading '0' characters
MeetsTarget(b, heap, n, d) ==
    Prefix(calculate_hash([b EXCEPT !.nonce = n], heap), d) = Zeros(d)

\* what the claim says of a mine_block(d) call taking block b to block b2
MinedFrom(b, b2, heap, d) ==
    /\ b2.nonce >= b.nonce
    /\ MeetsTarget(b, heap, b2.nonce, d)
    /\ \A n \in b.nonce..(b2.nonce - 1) : ~MeetsTarget(b, heap, n, d)
    /\ b2.hash = calculate_hash(b2, heap)
    /\ b2 = [b EXCEPT !.nonce = b2.nonce, !.hash = b2.hash]

\* C14 as stated: mine_block(d) on any block ends at the smallest nonce
\* n >= n0 whose hash has d leading '0' characters, with that hash stored.
C14_Original ==
    [][last'.op = "mine_block" =>
        /\ MinedFrom(held_block, held_block', lists, last'.arg[1])
        /\ lists' = lists]_vars

\* C14: mine_block(d) on a block whose stored hash is the hash of its current
\* fields ends at the smallest nonce n >= n0 whose hash has d leading '0'
\* characters, with that hash stored; index, timestamp, transactions and
\* previous_hash are unchanged.
C14_MineBlock ==
    [][last'.op = "mine_block" /\ Consistent(held_block, lists) =>
        /\ MinedFrom(held_block, held_block', lists, last'.arg[1])
        /\ lists' = lists]_vars

C14_Witness ==
    /\ last.op = "mine_block"
    /\ last.arg[1] = HexLen
    /\ tampering = NoTampering
    /\ Consistent(held_block, lists)
    /\ Len(TxsOf(held_block)) = 1
    /\ \E n0 \in 1..(held_block.nonce - 1) :
            /\ MeetsTarget(held_block, lists, n0, 1)
            /\ MinedFrom([held_block EXCEPT !.nonce = n0,
                            !.hash = calculate_hash([held_block EXCEPT !.nonce = n0], lists)],
                         held_block, lists, HexLen)

\* Mined for difficulty d: the stored hash has d leading '0' characters
Mined(b, d) == Prefix(b.hash, d) = Zeros(d)

\* C15: a call of mine_block(d) on a block whose stored hash already has d
\* leading '0' characters changes nothing of the block; no method call takes
\* a block that is Mined for some d to one that is not; and a block that is
\* not Mined for d becomes Mined for d only by a call of mine_block whose
\* difficulty its stored hash did not yet satisfy.
C15_BlockStates ==
    [][last'.op # "tamper" =>
        /\ last'.op = "mine_block" /\ Mined(held_block, last'.arg[1]) =>
                held_block' = held_block /\ lists' = lists
        /\ \A d \in Difficulties :
            /\ Mined(held_block, d) => Mined(held_block', d)
            /\ ~Mined(held_block, d) /\ Mined(held_block', d) =>
                    last'.op = "mine_block" /\ ~Mined(held_block, last'.arg[1])]_vars

C15_Witness ==
    /\ last.op = "mine_block"
    /\ last.arg[1] = 1
    /\ tampering = NoTampering
    /\ Mined(held_block, HexLen)
    /\ held_block.hash = calculate_hash(held_block, lists)
    /\ \E n \in 0..(held_block.nonce - 1) :
            /\ MeetsTarget(held_block, lists, n, 1)
            /\ ~MeetsTarget(held_block, lists, n, HexLen)

\* genesis blocks that differ from g in fields other than the stored hash
GenesisVariants(g) ==
    { [g EXCEPT !.index = @ + 1],
      [g EXCEPT !.timestamp = @ + 1],
      [g EXCEPT !.transactions = chain[Len(chain)].transactions],
      [g EXCEPT !.previous_hash = g.hash],
      [g EXCEPT !.nonce = @ + 1],
      [g EXCEPT !.index = @ + 1, !.timestamp = @ + 1, !.previous_hash = g.hash,
                !.transactions = chain[Len(chain)].transactions, !.nonce = @ + 1] }

\* C16: the result of is_chain_valid() is the same for every genesis block
\* with the same stored hash, whatever its index, timestamp, transactions,
\* previous_hash and nonce and whether or not that hash is the hash of its
\* fields; a chain of the genesis block alone is reported valid for every
\* difficulty.
C16_GenesisTrusted ==
    [][last'.op = "is_chain_valid" =>
        /\ \A g \in GenesisVariants(chain[1]) :
                is_chain_valid(<<g>> \o Tail(chain), lists, difficulty) = last'.result
        /\ Len(chain) = 1 =>
                /\ last'.result.ret
                /\ \A d \in Difficulties : is_chain_valid(chain, lists, d).ret]_vars

C16_Witness ==
    /\ last.op = "is_chain_valid"
    /\ last.result.ret
    /\ Len(chain) >= 2
    /\ tampering.index = 0
    /\ tampering.field = "nonce"
    /\ chain[1].hash # calculate_hash(chain[1], lists)

\* a step that is a call of add_transaction by either caller: the call is
\* recorded, the clock was read, and a mine_pending_transactions in progress
\* did not move
AddStep == last'.op = "add_transaction" /\ now' # now /\ pc' = pc

\* C17: a call add_transaction(sender, recipient, amount), whoever makes it,
\* returns normally and puts one transaction with those three values at the
\* end of the pool, behind the transactions already pending in their order; the
\* pool stays the same list object, every other list, the sequence of blocks
\* with all their fields and the difficulty are unchanged, and with no other
\* call in progress so is the content of every block.
C17_AddTransaction ==
    [][AddStep =>
        /\ last'.raised = "none"
        /\ Len(Pool') = Len(Pool) + 1
        /\ SubSeq(Pool', 1, Len(Pool)) = Pool
        /\ Pool'[Len(Pool')].sender = last'.arg[1]
        /\ Pool'[Len(Pool')].recipient = last'.arg[2]
        /\ Pool'[Len(Pool')].amount = last'.arg[3]
        /\ pending_transactions' = pending_transactions
        /\ Len(lists') = Len(lists)
        /\ \A r \in 1..Len(lists) : r # pending_transactions => lists'[r] = lists[r]
        /\ chain' = chain
        /\ difficulty' = difficulty
        /\ pc = "idle" => \A i \in 1..Len(chain) : TxsOf(chain[i])' = TxsOf(chain[i])]_vars

C17_Witness ==
    /\ last.op = "add_transaction"
    /\ last.arg = <<"B", "A", NaN>>
    /\ Len(Pool) = 3
    /\ Pool[1].sender = "A"
    /\ Pool[2].sender = NetworkSender
    /\ Pool[3].sender = "B" /\ Pool[3].recipient = "A" /\ Pool[3].amount = NaN
    /\ Len(chain) = 1

\* C18: without tampering, the block at position i of the chain has index i.
C18_IndexIsPosition == \A k \in 1..Len(chain) : chain[k].index = k - 1

C18_Witness ==
    /\ Len(chain) >= 3
    /\ last.op = "mine_pending_transactions"
    /\ chain[3].index = 2
    /\ chain[3].previous_hash = chain[2].hash
    /\ chain[2].index = 1

\* C19: a call of is_chain_valid() on any chain, tampered or not, leaves the
\* blocks and their fields, the transaction lists, the pool and the difficulty
\* as they were, so validating again right after the call gives the result
\* the call returned.
C19_PureRead ==
    [][last'.op = "is_chain_valid" =>
        /\ chain' = chain
        /\ lists' = lists
        /\ pending_transactions' = pending_transactions
        /\ difficulty' = difficulty
        /\ is_chain_valid(chain', lists', difficulty') = last'.result]_vars

C19_Witness ==
    /\ last.op = "is_chain_valid"
    /\ ~last.result.ret
    /\ last.result.category = "hash"
    /\ tampering.field = "amount"
    /\ tampering.index = last.result.index
    /\ chain[last.result.index + 1].hash
            # calculate_hash(chain[last.result.index + 1], lists)

====
